---- MODULE Spec2Model ----
(***************************************************************************)
(* A model of lichess_main.py: the importer get_player_games, the          *)
(* move-sequence matcher given_move_responses and the two value_counts     *)
(* reports of the script.                                                  *)
(*                                                                         *)
(* Representation.  A Python str is a sequence of one-character strings.   *)
(* A dict is a function whose domain is its set of keys.  A DataFrame cell *)
(* is a set with at most one element: {} is NaN (a missing value), {v} is  *)
(* the value v.  A DataFrame is a sequence of rows, each row carrying its  *)
(* index label.                                                            *)
(***************************************************************************)
EXTENDS Integers, Sequences, FiniteSets, TLC

VARIABLES
    pc,           \* "start", "loaded", "crashed", "matched", "refiltered", "reported"
    raw,          \* the records as the server returned them
    games_list,   \* the same record objects after get_player_games has run
    err,          \* the exception that ended the last call, or "none"
    games_df,     \* the DataFrame get_player_games returned
    call,         \* the arguments of the last given_move_responses call
    result,       \* the DataFrame the last given_move_responses call returned
    openings_vc,  \* games_df.opening.value_counts()
    status_vc     \* games_df[not_win_mask].status.value_counts()

vars == <<pc, raw, games_list, err, games_df, call, result, openings_vc, status_vc>>

----------------------------------------------------------------------------
(* Bounds of the model *)

MaxGames == 2
MaxPlies == 4
MaxTarget == 2
MaxBatch == 2
MaxName == 3
MaxReportGames == 3

----------------------------------------------------------------------------
(* Values *)

NaN == {}

Cell(v) == {v}

Val(c) == CHOOSE v \in c : TRUE

isnull(c) == c = NaN

SeqsUpTo(S, n) == UNION {[1..k -> S] : k \in 0..n}

MinOf(S) == CHOOSE x \in S : \A y \in S : x <= y

MaxOf(S) == CHOOSE x \in S : \A y \in S : x >= y

\* {**x, **y}: the keys of both, y's value where both have the key
DictMerge(x, y) == [k \in (DOMAIN x) \cup (DOMAIN y) |-> IF k \in DOMAIN y THEN y[k] ELSE x[k]]

\* the dict x after x.pop(key)
DictPop(x, key) == [k \in (DOMAIN x) \ {key} |-> x[k]]

----------------------------------------------------------------------------
(* str.split(), Series.str.extract *)

RECURSIVE SplitFrom(_, _, _, _)
SplitFrom(s, i, cur, acc) ==
    IF i > Len(s)
    THEN IF cur = <<>> THEN acc ELSE Append(acc, cur)
    ELSE IF s[i] = " "
         THEN SplitFrom(s, i + 1, <<>>, IF cur = <<>> THEN acc ELSE Append(acc, cur))
         ELSE SplitFrom(s, i + 1, Append(cur, s[i]), acc)

\* x.split(): the maximal runs of non-whitespace characters, in order
split(s) == SplitFrom(s, 1, <<>>, <<>>)

Colons(s) == {i \in 1..Len(s) : s[i] = ":"}

\* name.str.extract("(.*)\:"): (.*) is greedy, so group 1 runs to the LAST colon
extract_before(c) ==
    IF isnull(c) \/ Colons(Val(c)) = {} THEN NaN
    ELSE Cell(SubSeq(Val(c), 1, MaxOf(Colons(Val(c))) - 1))

\* name.str.extract("\:(.*)"): the leftmost match starts at the FIRST colon
extract_after(c) ==
    IF isnull(c) \/ Colons(Val(c)) = {} THEN NaN
    ELSE Cell(SubSeq(Val(c), MinOf(Colons(Val(c))) + 1, Len(Val(c))))

----------------------------------------------------------------------------
(* get_player_games *)

\* [{**x, **x.pop("opening")} for x in games_list]: the display unpacks x
\* (still holding "opening"), then pops "opening" from x and unpacks it.
\* A record without "opening" raises KeyError; the records before it stay popped.
RECURSIVE Comprehension(_, _, _)
Comprehension(gl, i, acc) ==
    IF i > Len(gl) THEN [list |-> gl, dicts |-> acc, err |-> "none"]
    ELSE IF "opening" \notin DOMAIN gl[i]
         THEN [list |-> gl, dicts |-> acc, err |-> "KeyError"]
         ELSE Comprehension([gl EXCEPT ![i] = DictPop(gl[i], "opening")], i + 1,
                            Append(acc, DictMerge(gl[i], gl[i]["opening"])))

\* pd.DataFrame(list of dicts): the columns are the union of the keys, a
\* missing key is NaN, the index is 0..n-1
Columns(dicts) == UNION {DOMAIN dicts[i] : i \in 1..Len(dicts)}

CellOf(d, col) == IF col \in DOMAIN d THEN Cell(d[col]) ELSE NaN

Selected == {"winner", "status", "name", "moves"}

\* one row of the returned frame, from a row of games_df[Selected]
GameRow(d, label) ==
    LET name == CellOf(d, "name")
        opening == extract_before(name)
    IN  [label |-> label,
         winner |-> CellOf(d, "winner"),
         status |-> CellOf(d, "status"),
         opening |-> IF isnull(opening) THEN name ELSE opening,
         variation |-> extract_after(name),
         moves |-> Cell(split(d["moves"]))]

\* lines 47-64: the outcome of the import of the list gl
import_games(gl) ==
    LET c == Comprehension(gl, 1, <<>>)
    IN  IF c.err # "none"
        THEN [list |-> c.list, err |-> c.err, df |-> <<>>]
        ELSE IF ~(Selected \subseteq Columns(c.dicts))
        THEN [list |-> c.list, err |-> "KeyError", df |-> <<>>]
        ELSE IF \E i \in 1..Len(c.dicts) : "moves" \notin DOMAIN c.dicts[i]
        THEN [list |-> c.list, err |-> "AttributeError", df |-> <<>>]
        ELSE [list |-> c.list, err |-> "none",
              df |-> [i \in 1..Len(c.dicts) |-> GameRow(c.dicts[i], i - 1)]]

----------------------------------------------------------------------------
(* given_move_responses *)

\* itertools.permutations(moves): one tuple per permutation of the POSITIONS
\* of moves, so repeated moves give repeated tuples
IndexPermutations(n) == {p \in [1..n -> 1..n] : \A i, j \in 1..n : p[i] = p[j] => i = j}

Identity(n) == [i \in 1..n |-> i]

Item(moves, p) == [i \in 1..Len(moves) |-> moves[p[i]]]

\* x[start:stop:step] for start >= 0, step >= 1 (0-based, stop clamped to len(x))
Slice(x, start, stop, step) ==
    LET hi == IF stop < Len(x) THEN stop ELSE Len(x)
        n == IF hi <= start THEN 0 ELSE (hi - start + step - 1) \div step
    IN  [k \in 1..n |-> x[start + (k - 1) * step + 1]]

\* line 101: x[0:2*len(item):2]
WhiteWindow(x, n) == Slice(x, 0, 2 * n, 2)

\* line 104: x[1:2*len(item)+1:2]
BlackWindow(x, n) == Slice(x, 1, 2 * n + 1, 2)

\* line 107: x[0:len(item)]
PlainWindow(x, n) == Slice(x, 0, n, 1)

Window(kind, x, n) ==
    CASE kind = "white" -> WhiteWindow(x, n)
      [] kind = "black" -> BlackWindow(x, n)
      [] OTHER -> PlainWindow(x, n)

Labels(df) == {df[i].label : i \in 1..Len(df)}

RowAt(df, l) == df[CHOOSE i \in 1..Len(df) : df[i].label = l]

\* df.moves.apply(lambda x: window(x) == list(item)): a Series on df's index
Applied(df, kind, item) ==
    [l \in Labels(df) |-> Window(kind, Val(RowAt(df, l).moves), Len(item)) = item]

\* mask += series: aligned on the union of the two indexes; a label that is
\* missing on either side is NaN, and NaN stays NaN
SeriesAdd(mask, ser) ==
    [l \in (DOMAIN mask) \cup (DOMAIN ser) |->
        IF l \in DOMAIN mask /\ l \in DOMAIN ser /\ ~isnull(mask[l])
        THEN Cell(Val(mask[l]) + (IF ser[l] THEN 1 ELSE 0))
        ELSE NaN]

\* for item in moves: mask += df.moves.apply(...)
RECURSIVE Loop(_, _, _, _, _)
Loop(mask, df, moves, kind, perms) ==
    IF perms = {} THEN mask
    ELSE LET p == CHOOSE q \in perms : TRUE
         IN  Loop(SeriesAdd(mask, Applied(df, kind, Item(moves, p))), df, moves, kind,
                  perms \ {p})

\* a mutant of astype_bool: a game counts only when exactly one candidate matched
astype_bool_one(mask) == [l \in DOMAIN mask |-> mask[l] = Cell(1)]

\* mask.astype(bool): 0 is False, every other number is True, and so is NaN
astype_bool(mask) == [l \in DOMAIN mask |-> isnull(mask[l]) \/ Val(mask[l]) # 0]

\* lines 91-109.  With shuffle the candidates are an iterator, which the white
\* loop exhausts; without it they are a list, which the loop under the else
\* of `if color == "black"` walks again.
given_move_responses(df, moves, color, shuffle) ==
    LET all == IF shuffle THEN IndexPermutations(Len(moves)) ELSE {Identity(Len(moves))}
        mask0 == [l \in 0..(Len(df) - 1) |-> Cell(0)]
        mask1 == IF color = "white" THEN Loop(mask0, df, moves, "white", all) ELSE mask0
        left == IF color = "white" /\ shuffle THEN {} ELSE all
        mask2 == IF color = "black" THEN Loop(mask1, df, moves, "black", left)
                 ELSE Loop(mask1, df, moves, "plain", left)
        key == astype_bool(mask2)
    IN  IF ~(Labels(df) \subseteq DOMAIN key)
        THEN [err |-> "IndexingError", df |-> <<>>]
        ELSE [err |-> "none", df |-> SelectSeq(df, LAMBDA r : key[r.label])]

----------------------------------------------------------------------------
(* the script: lines 118, 130-147 *)

color == "black"

opposite_color == IF color = "black" THEN "white" ELSE "black"

\* a mutant of not_win_mask: lose_mask, which leaves the games without a winner out
lose_mask(r) == r.winner = Cell(opposite_color)

\* line 138
not_win_mask(r) == r.winner = Cell(opposite_color) \/ isnull(r.winner)

\* Series.value_counts(): NaN is dropped, one entry per distinct value
Counts(cells) ==
    {<<Val(cells[i]), Cardinality({j \in 1..Len(cells) : cells[j] = cells[i]})>> :
        i \in {k \in 1..Len(cells) : ~isnull(cells[k])}}

\* the entries by descending count; the order among equal counts is not fixed
value_counts(cells) ==
    LET cs == Counts(cells)
        n == Cardinality(cs)
    IN  {s \in [1..n -> cs] :
            /\ \A i, j \in 1..n : s[i] = s[j] => i = j
            /\ \A i \in 1..n : \A j \in 1..n : i < j => s[i][2] >= s[j][2]}

Column(df, c) == [i \in 1..Len(df) |-> df[i][c]]

----------------------------------------------------------------------------
(* What the server may return *)

\* a raw record: the key is present when its cell holds a value
RawGame(w, s, m, o) ==
    LET field(k) == CASE k = "winner" -> w [] k = "status" -> s
                      [] k = "moves" -> m [] OTHER -> o
    IN  [k \in {q \in {"winner", "status", "moves", "opening"} : ~isnull(field(q))} |->
            Val(field(k))]

Batches(S, n) == UNION {[1..k -> S] : k \in 1..n}

RECURSIVE Join(_)
Join(plies) ==
    IF plies = <<>> THEN <<>>
    ELSE IF Len(plies) = 1 THEN plies[1]
    ELSE plies[1] \o <<" ">> \o Join(Tail(plies))

Plies == {<<"a">>, <<"b">>}

\* games of up to MaxPlies plies, all won by white
MatchRecords ==
    {RawGame(Cell("white"), Cell("mate"), Cell(Join(ps)), Cell([name |-> <<"A">>])) :
        ps \in SeqsUpTo(Plies, MaxPlies)}

MatchResponses == Batches(MatchRecords, MaxGames)

Targets == SeqsUpTo(Plies, MaxTarget)

NameChars == {"A", "b", ":"}

\* every opening name of up to MaxName characters
SplitRecords ==
    {RawGame(Cell("white"), Cell("mate"), Cell(<<"a">>), Cell([name |-> n])) :
        n \in SeqsUpTo(NameChars, MaxName)}

SplitResponses == Batches(SplitRecords, MaxBatch)

\* opening mappings: with a name, without one, and with a key of the record
OpeningMaps ==
    {[name |-> <<"A">>], [name |-> <<"A", ":", "b">>], [eco |-> "B00"],
     [eco |-> "B00", name |-> <<"A">>], [name |-> <<"A">>, status |-> "outoftime"]}

\* records with and without winner, moves, opening and opening.name
ImportRecords ==
    {RawGame(w, Cell(s), m, o) :
        w \in {NaN, Cell("white"), Cell("black")},
        s \in {"mate", "draw"},
        m \in {NaN, Cell(<<"a", " ", "b">>)},
        o \in {NaN} \cup {Cell(x) : x \in OpeningMaps}}

ImportResponses == {<<>>} \cup Batches(ImportRecords, MaxBatch)

\* records that keep the input contract: status, moves and opening.name present
ReportRecords ==
    {RawGame(w, Cell(s), Cell(<<"a">>), Cell([name |-> n])) :
        w \in {NaN, Cell("white"), Cell("black")},
        s \in {"mate", "resign"},
        n \in {<<"A">>, <<"B", ":", "c">>}}

ReportResponses == Batches(ReportRecords, MaxReportGames)

----------------------------------------------------------------------------
(* The state machine *)

NoCall == [df |-> <<>>, moves |-> <<>>, color |-> "None", shuffle |-> FALSE]

Init ==
    /\ pc = "start"
    /\ raw = <<>>
    /\ games_list = <<>>
    /\ err = "none"
    /\ games_df = <<>>
    /\ call = NoCall
    /\ result = <<>>
    /\ openings_vc = <<>>
    /\ status_vc = <<>>

\* lines 25-64 and 120: fetch the games and import them
get_player_games(responses) ==
    /\ pc = "start"
    /\ \E resp \in responses :
        LET r == import_games(resp)
        IN  /\ raw' = resp
            /\ games_list' = r.list
            /\ err' = r.err
            /\ games_df' = r.df
            /\ pc' = IF r.err = "none" THEN "loaded" ELSE "crashed"
    /\ UNCHANGED <<call, result, openings_vc, status_vc>>

\* a call of given_move_responses on df
Filter(df, next) ==
    \E moves \in Targets, c \in {"white", "black", "None"}, shuffle \in BOOLEAN :
        LET r == given_move_responses(df, moves, c, shuffle)
        IN  /\ call' = [df |-> df, moves |-> moves, color |-> c, shuffle |-> shuffle]
            /\ result' = r.df
            /\ err' = r.err
            /\ pc' = next
            /\ UNCHANGED <<raw, games_list, games_df, openings_vc, status_vc>>

\* line 149: given_move_responses(games_df, ...)
Match == pc = "loaded" /\ Filter(games_df, "matched")

\* given_move_responses applied to the frame an earlier call returned
Refilter == pc = "matched" /\ err = "none" /\ Filter(result, "refiltered")

\* lines 130-147: the two frequency reports
Report ==
    /\ pc = "loaded"
    /\ \E o \in value_counts(Column(games_df, "opening")),
          s \in value_counts(Column(SelectSeq(games_df, not_win_mask), "status")) :
        /\ openings_vc' = o
        /\ status_vc' = s
    /\ pc' = "reported"
    /\ UNCHANGED <<raw, games_list, err, games_df, call, result>>

LoadSplit == get_player_games(SplitResponses)

LoadImport == get_player_games(ImportResponses)

LoadMatch == get_player_games(MatchResponses)

LoadReport == get_player_games(ReportResponses)

NextSplit == LoadSplit

NextImport == LoadImport

NextMatch == LoadMatch \/ Match

NextRefilter == LoadMatch \/ Match \/ Refilter

NextReport == LoadReport \/ Report

\* the importer on opening names of every shape
SpecSplit == Init /\ [][NextSplit]_vars

\* the importer on complete and incomplete records
SpecImport == Init /\ [][NextImport]_vars

\* the matcher on an imported table
SpecMatch == Init /\ [][NextMatch]_vars

\* the matcher on an imported table and then on its own result
SpecRefilter == Init /\ [][NextRefilter]_vars

\* the reports over an imported table
SpecReport == Init /\ [][NextReport]_vars

----------------------------------------------------------------------------
(* What the claims expect *)

\* the plies of x at the 0-based positions first, first+step, ... equal cand,
\* element by element
PliesEqual(x, first, step, cand) ==
    /\ Len(cand) > 0 => Len(x) >= first + (Len(cand) - 1) * step + 1
    /\ \A i \in 1..Len(cand) : x[first + (i - 1) * step + 1] = cand[i]

Occurrences(c, v) == Cardinality({i \in 1..Len(c) : c[i] = v})

\* the target itself, or every rearrangement of it
CandidateSeqs(moves, shuffle) ==
    IF shuffle
    THEN {c \in [1..Len(moves) -> Plies] : \A v \in Plies : Occurrences(c, v) = Occurrences(moves, v)}
    ELSE {moves}

WindowMatches(x, c, moves, shuffle) ==
    \E cand \in CandidateSeqs(moves, shuffle) :
        CASE c = "white" -> PliesEqual(x, 0, 2, cand)
          [] c = "black" -> PliesEqual(x, 1, 2, cand)
          [] OTHER -> PliesEqual(x, 0, 1, cand)

\* the games of df whose window matches, in df's order
MatchingGames(df, moves, c, shuffle) ==
    SelectSeq(df, LAMBDA r : WindowMatches(Val(r.moves), c, moves, shuffle))

\* the fewest plies a game needs to fill the window
RequiredPlies(c, n) == CASE c = "white" -> 2 * n - 1 [] c = "black" -> 2 * n [] OTHER -> n

FirstColon(n) == CHOOSE k \in 1..Len(n) : n[k] = ":" /\ \A j \in 1..(k - 1) : n[j] # ":"

WellFormed(r) ==
    /\ {"status", "moves", "opening"} \subseteq DOMAIN r
    /\ "name" \in DOMAIN r["opening"]

Malformed(r) ==
    \/ "moves" \notin DOMAIN r
    \/ "opening" \notin DOMAIN r
    \/ "name" \notin DOMAIN r["opening"]

RECURSIVE SumCounts(_)
SumCounts(rep) == IF rep = <<>> THEN 0 ELSE rep[1][2] + SumCounts(Tail(rep))

\* rep lists every value of cells once, with its number of occurrences, by
\* non-increasing count, and the counts add up to the number of cells
IsFrequencyReport(rep, cells) ==
    /\ \A i \in 1..Len(cells) :
        /\ ~isnull(cells[i])
        /\ Cardinality({k \in 1..Len(rep) : rep[k][1] = Val(cells[i])}) = 1
        /\ \E k \in 1..Len(rep) :
            /\ rep[k][1] = Val(cells[i])
            /\ rep[k][2] = Cardinality({j \in 1..Len(cells) : cells[j] = cells[i]})
    /\ \A k \in 1..Len(rep) : \E i \in 1..Len(cells) : cells[i] = Cell(rep[k][1])
    /\ \A k \in 1..(Len(rep) - 1) : rep[k][2] >= rep[k + 1][2]
    /\ SumCounts(rep) = Len(cells)

----------------------------------------------------------------------------
(* The claims *)

\* C1: with color = "white", a game is returned if and only if its plies at
\* positions 0,2,...,2N-2 equal a candidate sequence, for both values of shuffle.
C1_WhiteIffWhitePlies ==
    (pc = "matched" /\ call.color = "white") =>
        /\ err = "none"
        /\ \A i \in 1..Len(call.df) :
            (call.df[i].label \in Labels(result)) <=>
                WindowMatches(Val(call.df[i].moves), "white", call.moves, call.shuffle)

\* C2: with color = "black" or absent, the result is exactly the games of the
\* input table whose window equals a candidate, each once, in table order.
C2_BlackOrAbsentExactFilter ==
    (pc = "matched" /\ call.color # "white") =>
        /\ err = "none"
        /\ result = MatchingGames(call.df, call.moves, call.color, call.shuffle)

\* C2 witness: a game matched by both duplicate permutations of a repeated move
\* is returned once, after a game that does not match
C2_Witness ==
    /\ pc = "matched"
    /\ call.color = "black"
    /\ call.shuffle
    /\ call.moves = <<<<"a">>, <<"a">>>>
    /\ Len(call.df) = 2
    /\ Len(result) = 1
    /\ result[1] = call.df[2]

\* C3: opening is the text before the FIRST colon of the raw name and variation
\* the text after it; without a colon opening is the name and variation is absent.
C3_SplitAtFirstColon ==
    pc = "loaded" =>
        \A i \in 1..Len(raw) :
            LET n == raw[i]["opening"]["name"]
            IN  IF \A k \in 1..Len(n) : n[k] # ":"
                THEN games_df[i].opening = Cell(n) /\ isnull(games_df[i].variation)
                ELSE /\ games_df[i].opening = Cell(SubSeq(n, 1, FirstColon(n) - 1))
                     /\ games_df[i].variation = Cell(SubSeq(n, FirstColon(n) + 1, Len(n)))

\* C4: when the server returns no record, the import ends without an error and
\* returns an empty table.
C4_EmptyImportSucceeds ==
    (pc # "start" /\ raw = <<>>) => (pc = "loaded" /\ err = "none" /\ games_df = <<>>)

\* C5: the import leaves the raw records unchanged, and equal raw records give
\* GameRecords with equal field values.
C5_ImportIsPure ==
    pc = "loaded" =>
        /\ games_list = raw
        /\ \A i, j \in 1..Len(raw) :
            raw[i] = raw[j] => [games_df[i] EXCEPT !.label = 0] = [games_df[j] EXCEPT !.label = 0]

\* C6: a non-empty batch of records that carry status, moves and opening.name
\* is imported to one GameRecord per record, in order, with the record's winner
\* (absent stays absent) and status.
C6_OneRecordPerRaw ==
    (pc # "start" /\ raw # <<>> /\ \A i \in 1..Len(raw) : WellFormed(raw[i])) =>
        /\ pc = "loaded"
        /\ Len(games_df) = Len(raw)
        /\ \A i \in 1..Len(raw) :
            /\ games_df[i].label = i - 1
            /\ games_df[i].winner = CellOf(raw[i], "winner")
            /\ games_df[i].status = Cell(raw[i]["status"])

\* C7: a record without moves or without opening.name gives no row: the import
\* fails or leaves the record out, and no returned row has an absent opening or
\* absent moves.
C7_NoSilentMalformedRow ==
    pc = "loaded" =>
        /\ \A i \in 1..Len(games_df) :
            ~isnull(games_df[i].opening) /\ ~isnull(games_df[i].moves)
        /\ Len(games_df) <= Cardinality({i \in 1..Len(raw) : ~Malformed(raw[i])})

\* C8: for every color and both values of shuffle, a game with fewer plies than
\* the window needs (N >= 1) is never returned, and no error is raised.
C8_ShortGameNeverMatches ==
    (pc = "matched" /\ Len(call.moves) >= 1) =>
        /\ err = "none"
        /\ \A i \in 1..Len(call.df) :
            Len(Val(call.df[i].moves)) < RequiredPlies(call.color, Len(call.moves)) =>
                call.df[i].label \notin Labels(result)

\* C9: each report lists every value of its subset once with its exact count,
\* by non-increasing count, and its counts add up to the size of the subset:
\* the openings of all games, the status of the games white won or nobody won.
C9_FrequencyReports ==
    pc = "reported" =>
        /\ IsFrequencyReport(openings_vc, Column(games_df, "opening"))
        /\ IsFrequencyReport(status_vc,
               Column(SelectSeq(games_df,
                          LAMBDA r : r.winner = Cell("white") \/ r.winner = NaN),
                      "status"))

\* C9 witness: three games, two of one opening, and a status report that
\* counts a game without a winner and leaves a game black won out
C9_Witness ==
    /\ pc = "reported"
    /\ Len(games_df) = 3
    /\ Len(openings_vc) = 2
    /\ openings_vc[1][2] = 2
    /\ \E i \in 1..3 : isnull(games_df[i].winner)
    /\ \E i \in 1..3 : games_df[i].winner = Cell("black")
    /\ SumCounts(status_vc) = 2

====
